---- MODULE Spec2Model ----
(***************************************************************************)
(* QSpider (deepdeep/spiders/qspider.py): the response handler `parse` of  *)
(* a Q-learning crawler, with the collaborators it drives: the value       *)
(* function Q (QLearner), the goal, the balanced per-domain frontier queue *)
(* of the scheduler and the link extractor's seen-URL set.                 *)
(*                                                                         *)
(* URLs are integers; the domain of a URL is url modulo the number of     *)
(* domains.                                                                *)
(* A real score s is represented by the integer s * ScoreDen, so that      *)
(* score * FLOAT_PRIORITY_MULTIPLIER is in general not an integer.         *)
(* None (Python) is 0 for a link vector and <<>> for a matrix.             *)
(***************************************************************************)
EXTENDS Integers, Sequences, FiniteSets, TLC

\* ---------------------------------------------------------------- bounds
MaxResponses == 4
MaxModel == 2
MaxInterval == 2

Domains == {0, 1}
SeedURLs == Domains
LinkURLs == {2, 3, 4}
NoVec == 0
None == <<>>

\* ------------------------------------------------- external collaborators
\* formasaurus.utils.get_domain
get_domain(url) == url % Cardinality(Domains)

\* LinkVectorizer.transform, one row: the SAV of a link
LinkVector(url) == url - 1

\* goal.get_reward: the reward of the page at url
get_reward(url) == IF url % 3 = 0 THEN 0 ELSE 2

\* deepdeep.queues.FLOAT_PRIORITY_MULTIPLIER
FLOAT_PRIORITY_MULTIPLIER == 10000

\* the grid of the represented scores: score = n / ScoreDen
ScoreDen == 4 * FLOAT_PRIORITY_MULTIPLIER

\* a / b rounded to the nearest integer, halves to the even one (b > 0)
RoundDiv(a, b) ==
  LET q == a \div b
      r == a - q * b
  IN  IF 2 * r < b THEN q
      ELSE IF 2 * r > b THEN q + 1
      ELSE IF q % 2 = 0 THEN q ELSE q + 1

\* a / b truncated toward zero (b > 0): a float stored into an int array
TruncDiv(a, b) == IF a >= 0 THEN a \div b ELSE -((-a) \div b)

\* deepdeep.queues.score_to_priority: round(score * M)
score_to_priority(score) == RoundDiv(score * FLOAT_PRIORITY_MULTIPLIER, ScoreDen)

\* QLearner.predict, one row: the score of SAV v under model version m
\* (version 0 is the untrained model, which scores everything 0; the scores
\* of two SAVs under one model may differ by less than 1 / M)
predict(m, v) == IF m = 0 THEN 0 ELSE 16 * m + 2 * v * v - 5 * v + 9

\* QSpider.initial_priority = score_to_priority(5)
initial_priority == score_to_priority(5 * ScoreDen)

\* ------------------------------------------------------------------ state
VARIABLES
  baseline,             \* QSpider.baseline
  checkpoint_path,      \* TRUE iff QSpider.checkpoint_path is set
  checkpoint_interval,  \* QSpider.checkpoint_interval
  io_fault,             \* the write that fails at the checkpoint destination, or "none"
  bad_slots,            \* slots whose pending SAVs predict cannot score (shape mismatch)
  t_,                   \* Q.t_, the step counter
  memory,               \* Q.memory, the recorded experiences, in order
  model,                \* version of the parameters Q.predict reads
  total_reward,         \* QSpider.total_reward
  model_changes,        \* QSpider.model_changes
  queues,               \* scheduler.queue: slot -> pending requests, in insertion order
  open_slots,           \* slots whose queue has been created
  closed_slots,         \* scheduler.queue.closed_slots
  achieved,             \* domains for which goal.is_acheived_for is true
  seen,                 \* the link extractor's process-wide seen-URL set
  checkpoints,          \* step counts of the Q-<t>.joblib files written
  output,               \* requests yielded by the last parse, not yet enqueued
  response_count,       \* BaseSpider response count
  nonseed_responses,    \* responses processed whose meta carried a link_vector (history)
  last                  \* what the last parse call did (history)

vars == <<baseline, checkpoint_path, checkpoint_interval, io_fault, bad_slots,
          t_, memory, model,
          total_reward, model_changes, queues, open_slots, closed_slots,
          achieved, seen, checkpoints, output, response_count,
          nonseed_responses, last>>

config == <<baseline, checkpoint_path, checkpoint_interval, io_fault, bad_slots>>

Request(url, priority, link_vector) ==
  [url |-> url, priority |-> priority, link_vector |-> link_vector,
   slot |-> get_domain(url)]

NoLast ==
  [request |-> Request(0, 0, NoVec), text |-> FALSE, links |-> <<>>,
   goal_reward |-> 0, reward |-> 0, log |-> <<>>, refreshed |-> {},
   refreshes |-> 0, achieved_at_refresh |-> {}, checkpointed |-> FALSE,
   raised |-> FALSE, yielded |-> <<>>, stats |-> FALSE, changed |-> FALSE,
   model_before |-> 0, seen_before |-> {}, recorded |-> 0, returned |-> <<>>,
   queues_before |-> [d \in Domains |-> <<>>], io_failed |-> FALSE,
   rewards_due |-> 0]

\* ------------------------------------------------ the state parse works on
\* The record the handler's steps transform, in the order the code runs them.
Self ==
  [t_ |-> t_, memory |-> memory, model |-> model, total_reward |-> total_reward,
   model_changes |-> model_changes, queues |-> queues, open_slots |-> open_slots,
   closed_slots |-> closed_slots, achieved |-> achieved, seen |-> seen,
   checkpoints |-> checkpoints, response_count |-> response_count,
   log |-> <<>>, refreshed |-> {}, refreshes |-> 0, achieved_at_refresh |-> {},
   checkpointed |-> FALSE, raised |-> FALSE, io_failed |-> FALSE,
   returned |-> <<>>, reward |-> 0]

Log(s, step) == [s EXCEPT !.log = Append(@, step)]

\* ------------------------------------------------------------ the scheduler
\* BalancedPriorityQueue.get_active_slots
get_active_slots(s) == s.open_slots \ s.closed_slots

\* Scheduler.close_slot: the slot's pending requests are abandoned
close_slot(s, slot) ==
  [s EXCEPT !.closed_slots = @ \cup {slot}, !.queues[slot] = <<>>]

\* RequestsPriorityQueue.update_all_priorities: the new priorities are
\* written back in place, one per pending request, in the queue's order
update_all_priorities(queue, priorities) ==
  [i \in 1 .. Len(queue) |-> [queue[i] EXCEPT !.priority = priorities[i]]]

\* Scheduler.enqueue_request: a request for a closed slot is dropped; the
\* slot's queue is created on its first request
enqueue_request(s, request) ==
  IF request.slot \in s.closed_slots THEN s
  ELSE [s EXCEPT !.queues[request.slot] = Append(@, request),
                 !.open_slots = @ \cup {request.slot}]

\* -------------------------------------------------------------- the spider
\* mutant: the membership test inverted
is_seed_inverted(r) == r.link_vector # NoVec

\* QSpider.is_seed
is_seed(r) == r.link_vector = NoVec

\* goal.is_acheived_for
is_acheived_for(s, domain) == domain \in s.achieved

\* goal.response_observed: observing a response may complete the objective
\* of the response's domain
response_observed(s, response, achieves) ==
  IF s.raised THEN s
  ELSE Log(IF achieves
             THEN [s EXCEPT !.achieved = @ \cup {get_domain(response.url)}]
             ELSE s,
           "response_observed")

\* mutant: the priorities array starts zeroed and seed entries are skipped
request_priorities_zero_seeds(requests, m) ==
  [idx \in 1 .. Len(requests) |->
     IF is_seed(requests[idx])
       THEN 0
       ELSE TruncDiv(predict(m, requests[idx].link_vector)
                       * FLOAT_PRIORITY_MULTIPLIER, ScoreDen)]

\* QSpider.recalculate_request_priorities.request_priorities
request_priorities(requests, m) ==
  [idx \in 1 .. Len(requests) |->
     IF is_seed(requests[idx])
       THEN requests[idx].priority
       ELSE TruncDiv(predict(m, requests[idx].link_vector)
                       * FLOAT_PRIORITY_MULTIPLIER, ScoreDen)]

\* Q.predict(sp.vstack(vectors)) raises for the pending requests of a slot
\* whose SAVs it cannot score; a slot without derived requests is not scored
rescoring_fails(s, slot) ==
  /\ slot \in bad_slots
  /\ \E i \in 1 .. Len(s.queues[slot]) : ~is_seed(s.queues[slot][i])

\* mutant: the pass stops after the first active slot
recalculate_request_priorities_one_slot(s) ==
  IF baseline THEN s
  ELSE LET active == get_active_slots(s)
           done == {slot \in active : \A other \in active : slot <= other}
       IN  [Log(s, "recalculate_request_priorities") EXCEPT
              !.queues = [slot \in Domains |->
                            IF slot \in done
                              THEN update_all_priorities(
                                     s.queues[slot],
                                     request_priorities(s.queues[slot], s.model))
                              ELSE s.queues[slot]],
              !.refreshed = done,
              !.refreshes = @ + 1,
              !.achieved_at_refresh = s.achieved]

\* QSpider.recalculate_request_priorities: the slots are visited in the order
\* the scheduler lists them (the order of their creation); an exception in
\* one slot ends the loop
recalculate_request_priorities(s) ==
  IF baseline THEN s
  ELSE LET active == get_active_slots(s)
           failing == {slot \in active : rescoring_fails(s, slot)}
           done == {slot \in active : \A f \in failing : slot < f}
       IN  [Log(s, "recalculate_request_priorities") EXCEPT
              !.queues = [slot \in Domains |->
                            IF slot \in done
                              THEN update_all_priorities(
                                     s.queues[slot],
                                     request_priorities(s.queues[slot], s.model))
                              ELSE s.queues[slot]],
              !.refreshed = done,
              !.refreshes = @ + 1,
              !.achieved_at_refresh = s.achieved,
              !.raised = (failing # {})]

\* mutant: the refresh is throttled to every second change
on_model_changed_throttled(s) ==
  LET s1 == Log([s EXCEPT !.model_changes = @ + 1], "on_model_changed")
  IN  IF (s1.model_changes % 2) = 0
        THEN recalculate_request_priorities(s1)
        ELSE s1

\* QSpider.on_model_changed
on_model_changed(s) ==
  LET s1 == Log([s EXCEPT !.model_changes = @ + 1], "on_model_changed")
  IN  IF (s1.model_changes % 1) = 0
        THEN recalculate_request_priorities(s1)
        ELSE s1

\* QLearner.add_experience: stores the experience, advances the step
\* counter and, when the update changes the parameters predict reads,
\* signals the spider through on_model_changed
add_experience(s, as_t, AS_t1, r_t1, changed) ==
  LET s1 == Log([s EXCEPT
                   !.memory = Append(@, [as_t |-> as_t, AS_t1 |-> AS_t1,
                                          r_t1 |-> r_t1]),
                   !.t_ = @ + 1],
                "add_experience")
  IN  IF changed
        THEN on_model_changed([s1 EXCEPT !.model = @ + 1])
        ELSE s1

\* QSpider.close_finished_queues
RECURSIVE CloseEach(_, _)
CloseEach(s, slots) ==
  IF slots = {} THEN s
  ELSE LET slot == CHOOSE x \in slots : TRUE
           s1 == IF is_acheived_for(s, slot) THEN close_slot(s, slot) ELSE s
       IN  CloseEach(s1, slots \ {slot})

\* mutant: the goal is never asked, no slot is closed
close_finished_queues_never(s) == Log(s, "close_finished_queues")

close_finished_queues(s) ==
  CloseEach(Log(s, "close_finished_queues"), get_active_slots(s))

\* LinkExtractor.deduplicate_links_enumerated: the indices of the links not
\* yet in the seen-URL set
deduplicate_links_enumerated(s, links) ==
  SelectSeq([i \in 1 .. Len(links) |-> i], LAMBDA i : links[i] \notin s.seen)

\* mutant: the scores are paired with the links in reverse order
_links_to_requests_reversed_scores(s, links, links_matrix) ==
  LET indices == deduplicate_links_enumerated(s, links)
      s1 == Log([s EXCEPT !.seen = @ \cup {links[i] : i \in 1 .. Len(links)}],
                "_links_to_requests")
      AS == [k \in 1 .. Len(indices) |-> links_matrix[indices[k]]]
      scores == [k \in 1 .. Len(indices) |->
                   predict(s.model, AS[Len(indices) + 1 - k])]
  IN  [s1 EXCEPT !.returned =
         [k \in 1 .. Len(indices) |->
            Request(links[indices[k]], score_to_priority(scores[k]), AS[k])]]

\* mutant: the SAV rows are taken from the top of the matrix, not by the
\* surviving links' indices
_links_to_requests_first_rows(s, links, links_matrix) ==
  LET indices == deduplicate_links_enumerated(s, links)
      s1 == Log([s EXCEPT !.seen = @ \cup {links[i] : i \in 1 .. Len(links)}],
                "_links_to_requests")
      AS == [k \in 1 .. Len(indices) |-> links_matrix[k]]
      scores == [k \in 1 .. Len(indices) |-> predict(s.model, AS[k])]
  IN  [s1 EXCEPT !.returned =
         [k \in 1 .. Len(indices) |->
            Request(links[indices[k]], score_to_priority(scores[k]), AS[k])]]

\* QSpider._links_to_requests
_links_to_requests(s, links, links_matrix) ==
  LET indices == deduplicate_links_enumerated(s, links)
      s1 == Log([s EXCEPT !.seen = @ \cup {links[i] : i \in 1 .. Len(links)}],
                "_links_to_requests")
      AS == [k \in 1 .. Len(indices) |-> links_matrix[indices[k]]]
      scores == [k \in 1 .. Len(indices) |-> predict(s.model, AS[k])]
  IN  [s1 EXCEPT !.returned =
         [k \in 1 .. Len(indices) |->
            Request(links[indices[k]], score_to_priority(scores[k]), AS[k])]]

\* LinkVectorizer.transform and Q.join_As: one SAV row per link, None when
\* the page has no links
LinksMatrix(links) == [i \in 1 .. Len(links) |-> LinkVector(links[i])]

\* mutant: a non-seed response without text is dropped like a bad seed
_parse_drops_dead_end(s, response, links, goal_reward, changed, achieves) ==
  IF ~response.text
    THEN [s EXCEPT !.returned = <<>>, !.reward = 0]
  ELSE
    LET links_matrix == LinksMatrix(links)
        s1 == IF ~is_seed(response)
                THEN response_observed(
                       add_experience(
                         [s EXCEPT !.total_reward = @ + goal_reward],
                         response.link_vector, links_matrix, goal_reward,
                         changed),
                       response, achieves)
                ELSE s
    IN  [_links_to_requests(s1, links, links_matrix) EXCEPT
           !.reward = IF is_seed(response) THEN 0 ELSE goal_reward]

\* mutant: a response without text is credited the goal's reward
_parse_rewards_dead_end(s, response, links, goal_reward, changed, achieves) ==
  IF is_seed(response) /\ ~response.text
    THEN [s EXCEPT !.returned = <<>>, !.reward = 0]
  ELSE IF ~response.text
    THEN [add_experience(s, response.link_vector, None, goal_reward, changed)
            EXCEPT !.returned = <<>>, !.reward = goal_reward]
  ELSE
    LET links_matrix == LinksMatrix(links)
        s1 == IF ~is_seed(response)
                THEN response_observed(
                       add_experience(
                         [s EXCEPT !.total_reward = @ + goal_reward],
                         response.link_vector, links_matrix, goal_reward,
                         changed),
                       response, achieves)
                ELSE s
    IN  [_links_to_requests(s1, links, links_matrix) EXCEPT
           !.reward = IF is_seed(response) THEN 0 ELSE goal_reward]

\* mutant: the reward is added to the running total before the seed test
_parse_rewards_seed(s, response, links, goal_reward, changed, achieves) ==
  IF is_seed(response) /\ ~response.text
    THEN [s EXCEPT !.returned = <<>>, !.reward = 0]
  ELSE IF ~response.text
    THEN [add_experience(s, response.link_vector, None, 0, changed)
            EXCEPT !.returned = <<>>, !.reward = 0]
  ELSE
    LET links_matrix == LinksMatrix(links)
        s0 == [s EXCEPT !.total_reward = @ + goal_reward]
        s1 == IF ~is_seed(response)
                THEN response_observed(
                       add_experience(s0, response.link_vector, links_matrix,
                                      goal_reward, changed),
                       response, achieves)
                ELSE s0
    IN  IF s1.raised THEN s1
        ELSE [_links_to_requests(s1, links, links_matrix) EXCEPT
                !.reward = IF is_seed(response) THEN 0 ELSE goal_reward]

\* QSpider._parse
_parse(s, response, links, goal_reward, changed, achieves) ==
  IF is_seed(response) /\ ~response.text
    THEN [s EXCEPT !.returned = <<>>, !.reward = 0]
  ELSE IF ~response.text
    THEN [add_experience(s, response.link_vector, None, 0, changed)
            EXCEPT !.returned = <<>>, !.reward = 0]
  ELSE
    LET links_matrix == LinksMatrix(links)
        s1 == IF ~is_seed(response)
                THEN response_observed(
                       add_experience(
                         [s EXCEPT !.total_reward = @ + goal_reward],
                         response.link_vector, links_matrix, goal_reward,
                         changed),
                       response, achieves)
                ELSE s
    IN  IF s1.raised THEN s1
        ELSE [_links_to_requests(s1, links, links_matrix) EXCEPT
                !.reward = IF is_seed(response) THEN 0 ELSE goal_reward]

\* QSpider.do_checkpoint: dump_policy writes Q-<t_>.joblib and then rewrites
\* params.json (_save_params_json), dump_crawl_graph writes graph.pickle; a
\* write that fails raises and nothing catches it
do_checkpoint(s) ==
  IF ~checkpoint_path THEN s
  ELSE IF io_fault = "dump_policy"
    THEN [Log(s, "dump_policy") EXCEPT !.raised = TRUE, !.io_failed = TRUE]
  ELSE LET s1 == Log([s EXCEPT !.checkpoints = @ \cup {s.t_},
                                !.checkpointed = TRUE],
                     "dump_policy")
       IN  IF io_fault = "none" THEN s1
           ELSE [s1 EXCEPT !.raised = TRUE, !.io_failed = TRUE]

\* mutant: the test for a step counter of zero is missing
maybe_checkpoint_at_zero(s) ==
  LET s1 == Log(s, "maybe_checkpoint")
  IN  IF checkpoint_interval = 0 THEN [s1 EXCEPT !.raised = TRUE]
      ELSE IF (s1.t_ % checkpoint_interval) # 0 THEN s1
      ELSE do_checkpoint(s1)

\* mutant: a step count that already has its checkpoint is not written again
maybe_checkpoint_once(s) ==
  LET s1 == Log(s, "maybe_checkpoint")
  IN  IF s.raised THEN s
      ELSE IF checkpoint_interval = 0 THEN [s1 EXCEPT !.raised = TRUE]
      ELSE IF (s1.t_ % checkpoint_interval) # 0 \/ s1.t_ = 0 THEN s1
      ELSE IF s1.t_ \in s1.checkpoints THEN s1
      ELSE do_checkpoint(s1)

\* QSpider.maybe_checkpoint; t_ % 0 raises ZeroDivisionError
maybe_checkpoint(s) ==
  LET s1 == Log(s, "maybe_checkpoint")
  IN  IF s.raised THEN s
      ELSE IF checkpoint_interval = 0 THEN [s1 EXCEPT !.raised = TRUE]
      ELSE IF (s1.t_ % checkpoint_interval) # 0 \/ s1.t_ = 0 THEN s1
      ELSE do_checkpoint(s1)

\* BaseSpider.increase_response_count
increase_response_count(s) == [s EXCEPT !.response_count = @ + 1]

\* QSpider.log_stats
log_stats(s) == IF s.raised THEN s ELSE Log(s, "log_stats")

\* mutant: the slot closing check runs after _parse
parse_closes_late(s, response, links, goal_reward, changed, achieves) ==
  maybe_checkpoint(
    log_stats(
      close_finished_queues(
        _parse(increase_response_count(s),
               response, links, goal_reward, changed, achieves))))

\* QSpider.parse up to its first yield
parse(s, response, links, goal_reward, changed, achieves) ==
  maybe_checkpoint(
    log_stats(
      _parse(close_finished_queues(increase_response_count(s)),
             response, links, goal_reward, changed, achieves)))

\* ---------------------------------------------------------------- actions
\* the web being crawled: the locally deduplicated links a page carries when
\* it is fetched (the link extractor's iter_link_dicts), in page order
Web(url) ==
  CASE url = 0 -> {<<2, 3>>, <<3>>}
    [] url = 1 -> {<<3, 4>>, <<4>>}
    [] url = 2 -> {<<3>>, <<>>}
    [] url = 3 -> {<<2, 4>>, <<4, 2>>}
    [] OTHER   -> {<<2>>, <<3, 2>>}

RemoveAt(q, i) == SubSeq(q, 1, i - 1) \o SubSeq(q, i + 1, Len(q))

\* the state after construction and start_requests, whatever the settings
Start ==
  /\ baseline \in BOOLEAN
  /\ checkpoint_path \in BOOLEAN
  /\ checkpoint_interval \in 0 .. MaxInterval
  /\ t_ = 0
  /\ memory = <<>>
  /\ model = 0
  /\ total_reward = 0
  /\ model_changes = 0
  /\ queues = [d \in Domains |-> <<Request(d, initial_priority, NoVec)>>]
  /\ open_slots = Domains
  /\ closed_slots = {}
  /\ achieved = {}
  /\ seen = {}
  /\ checkpoints = {}
  /\ output = <<>>
  /\ response_count = 0
  /\ nonseed_responses = 0
  /\ last = NoLast

\* every write to the checkpoint destination succeeds and every pending SAV
\* can be scored
Init ==
  /\ Start
  /\ io_fault = "none"
  /\ bad_slots = {}

\* one kind of write to the checkpoint destination fails, or the pending
\* SAVs of one slot cannot be scored
IOFaults == {"dump_policy", "save_params", "dump_graph"}

InitFaulty ==
  /\ Start
  /\ \/ io_fault \in IOFaults /\ bad_slots = {}
     \/ io_fault = "none" /\ \E slot \in Domains : bad_slots = {slot}

\* The scheduler hands the engine a pending request of an open slot (the
\* balancer picks the slot at random and, with probability eps, the request),
\* the page is downloaded and the engine runs the callback on the response
Parse ==
  /\ output = <<>>
  /\ response_count < MaxResponses
  /\ \E slot \in open_slots \ closed_slots :
       \E i \in 1 .. Len(queues[slot]) :
         \E text \in BOOLEAN, links \in Web(queues[slot][i].url) \cup {<<>>},
            changed \in BOOLEAN, achieves \in BOOLEAN :
           LET request == queues[slot][i]
               goal_reward == get_reward(request.url)
               response == [url |-> request.url,
                            link_vector |-> request.link_vector,
                            priority |-> request.priority, text |-> text]
               dequeued == [Self EXCEPT !.queues[slot] = RemoveAt(@, i)]
           IN  /\ text => links \in Web(request.url)
               /\ ~text => (links = <<>> /\ ~achieves)
               /\ achieves => goal_reward > 0
               /\ request.link_vector = NoVec => (~changed /\ ~achieves)
               /\ changed => model < MaxModel
               /\ \E s \in {parse(dequeued, response, links, goal_reward,
                                  changed, achieves)} :
                    /\ t_' = s.t_
                    /\ memory' = s.memory
                    /\ model' = s.model
                    /\ total_reward' = s.total_reward
                    /\ model_changes' = s.model_changes
                    /\ queues' = s.queues
                    /\ open_slots' = s.open_slots
                    /\ closed_slots' = s.closed_slots
                    /\ achieved' = s.achieved
                    /\ seen' = s.seen
                    /\ checkpoints' = s.checkpoints
                    /\ response_count' = s.response_count
                    /\ output' = IF s.raised THEN <<>> ELSE s.returned
                    /\ last' = [request |-> request, text |-> text,
                                links |-> links, goal_reward |-> goal_reward,
                                reward |-> s.reward, log |-> s.log,
                                refreshed |-> s.refreshed,
                                refreshes |-> s.refreshes,
                                achieved_at_refresh |-> s.achieved_at_refresh,
                                checkpointed |-> s.checkpointed,
                                raised |-> s.raised,
                                yielded |-> IF s.raised THEN <<>> ELSE s.returned,
                                stats |-> ~s.raised, changed |-> changed,
                                model_before |-> model, seen_before |-> seen,
                                recorded |-> Len(s.memory) - Len(memory),
                                returned |-> s.returned,
                                queues_before |-> queues,
                                io_failed |-> s.io_failed,
                                rewards_due |->
                                  last.rewards_due
                                    + (IF text /\ request.link_vector # NoVec
                                         THEN goal_reward ELSE 0)]
                    /\ nonseed_responses' =
                         nonseed_responses
                           + (IF request.link_vector = NoVec THEN 0 ELSE 1)
  /\ UNCHANGED config

\* The engine passes the requests the callback yielded to the scheduler
RECURSIVE EnqueueAll(_, _)
EnqueueAll(s, requests) ==
  IF requests = <<>> THEN s
  ELSE EnqueueAll(enqueue_request(s, Head(requests)), Tail(requests))

EnqueueOutput ==
  /\ output # <<>>
  /\ \E s \in {EnqueueAll(Self, output)} :
       /\ queues' = s.queues
       /\ open_slots' = s.open_slots
  /\ output' = <<>>
  /\ UNCHANGED <<config, t_, memory, model, total_reward, model_changes,
                 closed_slots, achieved, seen, checkpoints,
                 response_count, nonseed_responses, last>>

Next == Parse \/ EnqueueOutput

Spec == Init /\ [][Next]_vars

SpecFaulty == InitFaulty /\ [][Next]_vars

\* ----------------------------------------------------------------- claims
\* a step of the run is the processing of one response
ParseStep == response_count' = response_count + 1

Processed == response_count > 0

\* the last response was a seed response: its meta had no link_vector
LastSeed == last.request.link_vector = NoVec

Range(q) == {q[i] : i \in 1 .. Len(q)}

\* C1: every processed response records exactly one experience when it is
\* non-seed (with or without text) and none when it is a seed response, so
\* the number of recorded experiences equals the number of non-seed
\* responses processed.
C1_OneExperiencePerNonSeed ==
  /\ Len(memory) = nonseed_responses
  /\ Processed => last.recorded = (IF LastSeed THEN 0 ELSE 1)

C1_Witness ==
  /\ Processed /\ ~LastSeed /\ ~last.text
  /\ last.recorded = 1
  /\ Len(memory) >= 2
  /\ response_count > nonseed_responses

\* C2: processing a seed response leaves the step counter, the recorded
\* experiences and total_reward unchanged, with or without text and however
\* many requests it yields.
C2_SeedRecordsNothing ==
  [][(ParseStep /\ last'.request.link_vector = NoVec)
       => (t_' = t_ /\ memory' = memory /\ total_reward' = total_reward)]_vars

C2_Witness ==
  /\ Processed /\ LastSeed /\ last.text
  /\ Len(last.returned) >= 1
  /\ get_reward(last.request.url) > 0
  /\ t_ > 0 /\ total_reward > 0

\* C3 as stated: any response lacking text yields exactly one experience
\* with reward 0 and no next-state SAVs, and no onward requests.
C3_AnyTextlessRecordsDeadEnd ==
  (Processed /\ ~last.text)
    => /\ last.recorded = 1
       /\ memory[Len(memory)].r_t1 = 0
       /\ memory[Len(memory)].AS_t1 = None
       /\ last.returned = <<>>

\* C3 amended: any non-seed response lacking text yields exactly one
\* experience (its own SAV, no next-state SAVs, reward 0) and no onward
\* requests; a seed response lacking text yields neither.
C3_NonSeedTextlessRecordsDeadEnd ==
  (Processed /\ ~last.text)
    => /\ last.returned = <<>>
       /\ last.reward = 0
       /\ IF LastSeed
            THEN last.recorded = 0
            ELSE /\ last.recorded = 1
                 /\ memory[Len(memory)] =
                      [as_t |-> last.request.link_vector, AS_t1 |-> None,
                       r_t1 |-> 0]

C3_Witness ==
  /\ Processed /\ ~LastSeed /\ ~last.text
  /\ last.recorded = 1
  /\ get_reward(last.request.url) > 0
  /\ Web(last.request.url) # {<<>>}

\* C4: a non-seed response with text whose N distinct links are all unseen
\* yields exactly N requests, one per link in page order, each carrying its
\* own SAV and the encoded score of that SAV under the model as it stands
\* after this response's update; when every link has been seen it yields none.
C4_OneRequestPerUnseenLink ==
  (Processed /\ ~LastSeed /\ last.text)
    => /\ (Range(last.links) \cap last.seen_before = {})
            => /\ Len(last.returned) = Len(last.links)
               /\ \A i \in 1 .. Len(last.links) :
                    /\ last.returned[i].url = last.links[i]
                    /\ last.returned[i].link_vector = LinkVector(last.links[i])
                    /\ last.returned[i].priority =
                         score_to_priority(
                           predict(model, LinkVector(last.links[i])))
       /\ (Range(last.links) \subseteq last.seen_before)
            => last.returned = <<>>

C4_Witness ==
  /\ Processed /\ ~LastSeed /\ last.text
  /\ Len(last.links) >= 2
  /\ Range(last.links) \cap last.seen_before = {}
  /\ Len(last.returned) = Len(last.links)
  /\ last.returned[1].priority # last.returned[2].priority

\* the requests of slot d that were pending when the last response was taken
\* from its queue
PendingBefore(d) ==
  SelectSeq(last.queues_before[d], LAMBDA r : r # last.request)

\* C5 as stated: after a refresh pass every derived pending request of every
\* open slot has the priority score_to_priority assigns to the current
\* model's score of its SAV, round(score * M).
C5_RefreshedPriorityIsRounded ==
  (Processed /\ last.refreshes > 0)
    => \A d \in last.refreshed :
         \A i \in 1 .. Len(queues[d]) :
           queues[d][i].link_vector # NoVec
             => queues[d][i].priority =
                  score_to_priority(predict(model, queues[d][i].link_vector))

\* C6: a refresh pass returns, for every open slot, one priority per pending
\* request in the queue's order: the same requests stay in the same order,
\* a seed-like request keeps its priority, and nothing but priorities changes.
C6_RefreshKeepsSeedsAndOrder ==
  [][(ParseStep /\ last'.refreshes > 0)
       => \A d \in last'.refreshed :
            LET req == last'.request
                before == SelectSeq(queues[d], LAMBDA r : r # req)
                prios == request_priorities(before, model')
            IN  /\ Len(prios) = Len(before)
                /\ Len(queues'[d]) = Len(before)
                /\ \A i \in 1 .. Len(before) :
                     /\ queues'[d][i] = [before[i] EXCEPT !.priority = prios[i]]
                     /\ before[i].link_vector = NoVec
                          => queues'[d][i].priority = before[i].priority]_vars

C6_Witness ==
  /\ Processed /\ last.refreshes > 0
  /\ \E d \in last.refreshed :
       /\ Len(PendingBefore(d)) >= 2
       /\ Len(queues[d]) >= Len(PendingBefore(d))
       /\ \E i, j \in 1 .. Len(PendingBefore(d)) :
            /\ PendingBefore(d)[i].link_vector = NoVec
            /\ queues[d][i].priority = initial_priority
            /\ PendingBefore(d)[j].link_vector # NoVec
            /\ queues[d][j].priority # PendingBefore(d)[j].priority

PositiveMultiple(t, n) == \E k \in 1 .. t : t = k * n

\* C8: with a destination configured, the processing of a response writes a
\* checkpoint if and only if the step counter is then a positive multiple of
\* the interval; a step counter of zero never checkpoints.
C8_CheckpointIffPositiveMultiple ==
  (Processed /\ checkpoint_path)
    => /\ last.checkpointed <=> PositiveMultiple(t_, checkpoint_interval)
       /\ last.checkpointed => t_ \in checkpoints
       /\ 0 \notin checkpoints

C8_Witness ==
  /\ Processed /\ checkpoint_path
  /\ last.checkpointed
  /\ checkpoint_interval = 2
  /\ t_ = 2
  /\ LastSeed

Before(log, a, b) ==
  \A i, j \in 1 .. Len(log) : (log[i] = a /\ log[j] = b) => i < j

C10_RefreshOncePerChange ==
  [][ParseStep
       => /\ model_changes' - model_changes = (IF last'.changed THEN 1 ELSE 0)
          /\ ~baseline
               => last'.refreshes = (IF last'.changed THEN 1 ELSE 0)
          /\ baseline
               => /\ last'.refreshes = 0
                  /\ \A d \in Domains \ closed_slots' :
                       LET req == last'.request
                       IN  queues'[d] = SelectSeq(queues[d], LAMBDA r : r # req)]_vars

C10_Witness ==
  /\ Processed /\ ~baseline
  /\ last.changed /\ last.refreshes = 1
  /\ model_changes = 2
  /\ \E d \in last.refreshed : \E i \in 1 .. Len(PendingBefore(d)) :
       queues[d][i].priority # PendingBefore(d)[i].priority

\* C11 as stated: a write that fails while checkpointing (the policy dump,
\* the params.json manifest or the crawl graph) does not abort the response:
\* parse still emits its stats item and every request it derived, and the
\* next responses are processed.
C11_CheckpointFailureKeepsOutput ==
  (Processed /\ last.io_failed)
    => /\ ~last.raised
       /\ last.stats
       /\ last.yielded = last.returned

\* C12 as stated: without a checkpoint destination the checkpoint check of
\* every response persists nothing and raises no error, for every step
\* counter and every interval, zero included.
C12_NoDestinationNeverRaises ==
  (Processed /\ ~checkpoint_path)
    => /\ ~last.raised
       /\ ~last.checkpointed
       /\ checkpoints = {}

\* C13 as stated: once a slot is closed, no later response constructs a
\* request whose scheduler_slot is that slot's domain.
C13_NoRequestForClosedSlot ==
  [][ParseStep
       => \A i \in 1 .. Len(last'.returned) :
            last'.returned[i].slot \notin closed_slots]_vars

\* C14 as stated: when re-scoring fails for one open slot during a refresh
\* pass, every other open slot is still refreshed in that pass.
C14_FailingSlotBlocksNoOther ==
  (Processed /\ last.refreshes > 0)
    => \A d \in (open_slots \ closed_slots) \ bad_slots : d \in last.refreshed

\* the derived requests the current model has scored in the last response:
\* those it derived and those pending in the slots its refresh pass visited
ScoredByCurrentModel ==
  Range(last.returned)
    \cup UNION {{r \in Range(queues[d]) : r.link_vector # NoVec} :
                  d \in last.refreshed}

\* C15 as stated: for any two derived requests scored by the same model, at
\* derivation or at refresh, a lower score never gets a higher priority, and
\* priority / M is within 1 / M of the score.
C15_EncodingPreservesOrder ==
  (Processed /\ ~baseline /\ ~last.raised)
    => \A r1, r2 \in ScoredByCurrentModel :
         /\ predict(model, r1.link_vector) < predict(model, r2.link_vector)
              => r1.priority <= r2.priority
         /\ r1.priority * ScoreDen
              - predict(model, r1.link_vector) * FLOAT_PRIORITY_MULTIPLIER
              \in (0 - ScoreDen) .. ScoreDen

RECURSIVE SumRewards(_)
SumRewards(experiences) ==
  IF experiences = <<>> THEN 0
  ELSE Head(experiences).r_t1 + SumRewards(Tail(experiences))

\* C16: total_reward is the sum of the goal's rewards over the non-seed
\* responses with text processed so far and the sum of the rewards of the
\* recorded experiences; each such response adds its reward once, every
\* other response adds nothing.
C16_TotalRewardIsSumOfRewards ==
  [][ParseStep
       => /\ total_reward' = last'.rewards_due
          /\ total_reward' = SumRewards(memory')
          /\ total_reward' - total_reward =
               (IF last'.text /\ last'.request.link_vector # NoVec
                  THEN get_reward(last'.request.url)
                  ELSE 0)]_vars

C16_Witness ==
  /\ Processed /\ ~LastSeed /\ last.text
  /\ last.reward > 0
  /\ total_reward > last.reward
  /\ total_reward = SumRewards(memory)
  /\ \E i \in 1 .. Len(memory) : memory[i].r_t1 = 0
  /\ response_count > nonseed_responses

\* C17: in learning mode, after every response, every derived request
\* pending in an open slot and every request the response emitted has a
\* priority computed from the current model's score of its own SAV (by the
\* codec at derivation, by the refresh's conversion when refreshed).
C17_NoStalePriority ==
  (Processed /\ ~baseline)
    => /\ \A d \in open_slots \ closed_slots :
            \A i \in 1 .. Len(queues[d]) :
              queues[d][i].link_vector # NoVec
                => queues[d][i].priority \in
                     {score_to_priority(
                        predict(model, queues[d][i].link_vector)),
                      TruncDiv(predict(model, queues[d][i].link_vector)
                                 * FLOAT_PRIORITY_MULTIPLIER, ScoreDen)}
       /\ \A i \in 1 .. Len(last.returned) :
            last.returned[i].priority =
              score_to_priority(predict(model, last.returned[i].link_vector))

C17_Witness ==
  /\ Processed /\ ~baseline
  /\ last.changed /\ model >= 1
  /\ last.returned # <<>>
  /\ output = last.returned
  /\ \E d \in (open_slots \ closed_slots) \ {get_domain(last.request.url)} :
       \E i \in 1 .. Len(PendingBefore(d)) :
         /\ PendingBefore(d)[i].link_vector # NoVec
         /\ queues[d][i].priority # PendingBefore(d)[i].priority

\* C18: with a destination and an interval of at least one, the step counter
\* advances by at most one per response and every positive multiple of the
\* interval it has reached has its checkpoint before the next response; a
\* response that leaves the step counter on a multiple checkpoints it again.
C18_NoCheckpointSkipped ==
  [][(ParseStep /\ checkpoint_path /\ checkpoint_interval >= 1)
       => /\ t_' - t_ \in {0, 1}
          /\ \A k \in 1 .. t_' :
               PositiveMultiple(k, checkpoint_interval) => k \in checkpoints'
          /\ PositiveMultiple(t_', checkpoint_interval) => last'.checkpointed]_vars

C18_Witness ==
  /\ Processed /\ checkpoint_path
  /\ checkpoint_interval = 1
  /\ checkpoints = {1, 2}
  /\ LastSeed /\ last.checkpointed
  /\ response_count = 4

\* C19: when the seen-URL filter drops some of a page's links, the requests
\* are the surviving links in page order, each with the SAV row and the
\* encoded score of its own link, and the experience recorded for a non-seed
\* response holds the SAVs of all the page's links, the dropped ones included.
C19_SurvivorsKeepOwnRows ==
  (Processed /\ last.text /\ last.links # <<>>)
    => LET survivors == SelectSeq(last.links,
                                  LAMBDA l : l \notin last.seen_before)
       IN  /\ Len(last.returned) = Len(survivors)
           /\ \A k \in 1 .. Len(survivors) :
                /\ last.returned[k].url = survivors[k]
                /\ last.returned[k].link_vector = LinkVector(survivors[k])
                /\ last.returned[k].priority =
                     score_to_priority(
                       predict(model, LinkVector(survivors[k])))
           /\ ~LastSeed
                => memory[Len(memory)].AS_t1 =
                     [i \in 1 .. Len(last.links) |-> LinkVector(last.links[i])]

C19_Witness ==
  /\ Processed /\ ~LastSeed /\ last.text
  /\ Len(last.links) = 2
  /\ last.links[1] \in last.seen_before
  /\ last.links[2] \notin last.seen_before
  /\ Len(last.returned) = 1
  /\ last.returned[1].link_vector # LinkVector(last.links[1])
  /\ Len(memory[Len(memory)].AS_t1) = 2
  /\ model > 0

====
